---------------------------- MODULE Spec2Model ----------------------------
(***************************************************************************)
(* State-machine model of the EduAssess assessment API: the persisted      *)
(* collections (users, exams, questions, results), the wall clock, and one *)
(* action per HTTP handler.  Each handler is translated from its source;   *)
(* the last response is kept in resp so that properties can speak about    *)
(* what a request was answered.                                            *)
(***************************************************************************)
EXTENDS Integers, Sequences, FiniteSets, TLC

VARIABLES users, exams, questions, results, now, resp, ctr, plain, consumed, inflight

vars == <<users, exams, questions, results, now, resp, ctr, plain, consumed, inflight>>

-----------------------------------------------------------------------------
(* Bounds of the model *)

MaxUsers == 2

MaxTicks == 2

MaxResetTokens == 2

MaxExams == 2

(* Program constants *)

ResetTokenTtlMs == 3600000

AccessExpiryMs == 3600000

MinPasswordLen == 8

TickMs == ResetTokenTtlMs \div 2

-----------------------------------------------------------------------------
(* Values *)

Undefined == "undefined"

NoDate == -1

UserIds == 1..MaxUsers

Times == {k * TickMs : k \in 0..MaxTicks}

Range(s) == {s[i] : i \in DOMAIN s}

Letters == {"a", "b", "c", "d", "e", "f", "u", "v", "w", "x", "y", "z"}

Digits == {"1", "2"}

Whitespace == {" "}

ResetSpecials == {"!", "@", "#", "$", "%", "^", "&", "*"}

PwA == <<"a", "b", "c", "d", "e", "f", "1", "!">>

PwAVariant == <<"a", "b", "c", "d", "e", "f", "1", "@">>

PwB == <<"x", "y", "z", "w", "v", "u", "2", "#">>

PwShort == <<"a", "1", "!">>

PwNoSpecial == <<"a", "b", "c", "d", "e", "f", "1", "2">>

PwEmpty == <<>>

Salts == {"s1"}

Emails == {"ann@x.io", "bob@x.io"}

EmailInputs == Emails \cup {"not-an-email", ""}

Roles == {"student", "admin"}

RegisterBody(name, email, password, role, phone) ==
  [name |-> name, email |-> email, password |-> password, role |-> role, phone |-> phone]

RegisterBodies ==
  {RegisterBody("Ann", "ann@x.io", PwA, "student", 111),
   RegisterBody("Bob", "bob@x.io", PwB, "admin", 222),
   RegisterBody("Bob", "bob@x.io", PwA, "student", 111),
   RegisterBody("", "ann@x.io", PwA, "student", 111),
   RegisterBody("Ann", "not-an-email", PwA, "student", 111),
   RegisterBody("Ann", "ann@x.io", PwA, "teacher", 111),
   RegisterBody("Ann", "ann@x.io", PwShort, "student", 111),
   RegisterBody("Ann", "ann@x.io", PwNoSpecial, "student", 111)}

LoginPasswords == {PwA, PwAVariant, PwB, PwEmpty}

ResetPasswords == {PwA, PwB, PwShort, PwNoSpecial, PwEmpty}

ResetTokenNames == <<"t1", "t2", "t3", "t4">>

ResetTokens == {ResetTokenNames[i] : i \in 1..MaxResetTokens}

-----------------------------------------------------------------------------
(* Responses *)

Response(op, status, msg, req, out) ==
  [op |-> op, status |-> status, msg |-> msg, req |-> req, out |-> out]

NoOut == [none |-> TRUE]

-----------------------------------------------------------------------------
(* Password hashing: the pre-save hook and comparePassword of the User model *)

Hash(p, salt) == <<"$2b$", salt>> \o p

IsHash(s) == Len(s) >= 2 /\ s[1] = "$2b$"

BcryptCompare(candidate, stored) ==
  IsHash(stored) /\ Hash(candidate, stored[2]) = stored

PreSave_Always(doc, modified, salt) ==
  [doc EXCEPT !.password = Hash(doc.password, salt)]

PreSave(doc, modified, salt) ==
  IF ~modified THEN doc
  ELSE [doc EXCEPT !.password = Hash(doc.password, salt)]

comparePassword(user, candidatePassword) ==
  BcryptCompare(candidatePassword, user.password)

-----------------------------------------------------------------------------
(* Request validators of the auth routes *)

HasLetter(p) == \E i \in DOMAIN p : p[i] \in Letters

HasDigit(p) == \E i \in DOMAIN p : p[i] \in Digits

HasRegisterSpecial(p) ==
  \E i \in DOMAIN p : p[i] \notin (Letters \cup Digits \cup Whitespace)

HasResetSpecial(p) == \E i \in DOMAIN p : p[i] \in ResetSpecials

isEmail(e) == e \in Emails

registerValidator(body) ==
  /\ body.name # ""
  /\ isEmail(body.email)
  /\ body.role \in Roles
  /\ Len(body.password) >= MinPasswordLen
  /\ HasLetter(body.password)
  /\ HasDigit(body.password)
  /\ HasRegisterSpecial(body.password)

loginValidator(body) == isEmail(body.email) /\ body.password # <<>>

ResetPasswordStrong(password) ==
  /\ Len(password) >= MinPasswordLen
  /\ HasLetter(password)
  /\ HasDigit(password)
  /\ HasResetSpecial(password)

-----------------------------------------------------------------------------
(* Queries on the users collection *)

Min(S) == CHOOSE x \in S : \A y \in S : x <= y

FindOne(S) == IF S = {} THEN 0 ELSE Min(S)

UsersByEmailOrPhone(email, phone) ==
  {u \in DOMAIN users : users[u].email = email \/ users[u].phone = phone}

UsersByEmail(email) == {u \in DOMAIN users : users[u].email = email}

UsersByValidResetToken_Inclusive(token) ==
  {u \in DOMAIN users :
     /\ users[u].resetToken = token
     /\ users[u].resetTokenExpiration # NoDate
     /\ users[u].resetTokenExpiration >= now}

UsersByValidResetToken(token) ==
  {u \in DOMAIN users :
     /\ users[u].resetToken = token
     /\ users[u].resetTokenExpiration # NoDate
     /\ users[u].resetTokenExpiration > now}

-----------------------------------------------------------------------------
(* Auth controller *)

NewUser(body, salt) ==
  PreSave([name |-> body.name,
           email |-> body.email,
           password |-> body.password,
           role |-> body.role,
           phone |-> body.phone,
           enrolledExams |-> <<>>,
           completedExams |-> <<>>,
           resetToken |-> Undefined,
           resetTokenExpiration |-> NoDate], TRUE, salt)

NewUserAt(body) == NewUser(body, "s1")

RegisterUser ==
  \E body \in RegisterBodies, salt \in Salts :
    LET email == body.email
        phone == body.phone
        password == body.password
        id == Cardinality(DOMAIN users) + 1
    IN
    /\ Cardinality(DOMAIN users) < MaxUsers
    /\ IF ~registerValidator(body)
       THEN /\ resp' = Response("registerUser", 400, "Validation failed", body, NoOut)
            /\ UNCHANGED <<users, plain>>
       ELSE IF UsersByEmailOrPhone(email, phone) # {}
       THEN /\ resp' = Response("registerUser", 409, "User already exists", body, NoOut)
            /\ UNCHANGED <<users, plain>>
       ELSE /\ users' = [u \in DOMAIN users \cup {id} |->
                           IF u = id THEN NewUser(body, salt) ELSE users[u]]
            /\ plain' = [u \in DOMAIN users \cup {id} |->
                           IF u = id THEN password ELSE plain[u]]
            /\ resp' = Response("registerUser", 201, "User registered successfully",
                                body, [id |-> id])
    /\ UNCHANGED <<exams, questions, results, now, ctr, consumed, inflight>>

createAccessToken(user, iat) ==
  [payload |-> [id |-> user.id, name |-> user.name, email |-> user.email,
                role |-> user.role],
   exp |-> iat + AccessExpiryMs,
   signed |-> TRUE]

NoSuchUser_Revealing(body) == Response("loginUser", 404, "User not found", body, NoOut)

NoSuchUser(body) == Response("loginUser", 401, "Invalid credentials", body, NoOut)

WrongPassword(body) == Response("loginUser", 401, "Invalid credentials", body, NoOut)

LoginUser ==
  \E email \in EmailInputs, password \in LoginPasswords :
    LET body == [email |-> email, password |-> password]
        u == FindOne(UsersByEmail(email))
    IN
    /\ IF ~loginValidator(body)
       THEN /\ resp' = Response("loginUser", 400, "Validation failed", body, NoOut)
            /\ UNCHANGED users
       ELSE IF u = 0
       THEN /\ resp' = NoSuchUser(body)
            /\ UNCHANGED users
       ELSE IF ~comparePassword(users[u], password)
       THEN /\ resp' = WrongPassword(body)
            /\ UNCHANGED users
       ELSE /\ users' = [users EXCEPT ![u] =
                           PreSave(@, FALSE, Undefined)]
            /\ resp' = Response("loginUser", 200, "Authentication successful", body,
                                [token |-> createAccessToken(
                                   [id |-> u, name |-> users[u].name,
                                    email |-> users[u].email,
                                    role |-> users[u].role], now)])
    /\ UNCHANGED <<exams, questions, results, now, ctr, plain, consumed, inflight>>

(* sendPasswordResetEmail catches a sendMail failure itself and returns false; *)
(* it never throws, so the caller's catch around it is not entered.           *)
sendPasswordResetEmail(delivered) == delivered

ForgotPassword ==
  \E email \in EmailInputs, delivered \in BOOLEAN :
    LET body == [email |-> email]
        u == FindOne(UsersByEmail(email))
        resetToken == ResetTokenNames[ctr.resetToken + 1]
        sent == sendPasswordResetEmail(delivered)
    IN
    /\ IF email = ""
       THEN /\ resp' = Response("forgotPassword", 400, "Email is required", body, NoOut)
            /\ UNCHANGED <<users, ctr>>
       ELSE IF u = 0
       THEN /\ resp' = Response("forgotPassword", 200, "If your email is registered",
                                body, NoOut)
            /\ UNCHANGED <<users, ctr>>
       ELSE /\ ctr.resetToken < MaxResetTokens
            /\ ctr' = [ctr EXCEPT !.resetToken = @ + 1]
            /\ users' = [users EXCEPT ![u] =
                           PreSave([@ EXCEPT !.resetToken = resetToken,
                                             !.resetTokenExpiration = now + ResetTokenTtlMs],
                                   FALSE, Undefined)]
            /\ resp' = Response("forgotPassword", 200, "If your email is registered",
                                body, [token |-> resetToken, sent |-> sent])
    /\ UNCHANGED <<exams, questions, results, now, plain, consumed, inflight>>

VerifyResetToken ==
  \E token \in ResetTokens :
    LET req == [token |-> token]
        u == FindOne(UsersByValidResetToken(token))
    IN
    /\ IF u = 0
       THEN resp' = Response("verifyResetToken", 400, "Invalid or expired token", req, NoOut)
       ELSE resp' = Response("verifyResetToken", 200, "Token verified successfully", req,
                             [email |-> users[u].email])
    /\ UNCHANGED <<users, exams, questions, results, now, ctr, plain, consumed, inflight>>

ClearResetToken_Keep(doc) == doc

ClearResetToken(doc) ==
  [doc EXCEPT !.resetToken = Undefined, !.resetTokenExpiration = NoDate]

ResetPassword ==
  \E authHeader \in {<<"Bearer">>} \cup {<<"Bearer", t>> : t \in ResetTokens},
     password \in ResetPasswords, salt \in Salts :
    LET token == IF Len(authHeader) >= 2 THEN authHeader[2] ELSE Undefined
        req == [token |-> token, password |-> password]
        u == FindOne(UsersByValidResetToken(token))
    IN
    /\ IF token = Undefined
       THEN /\ resp' = Response("resetPassword", 403, "Token is required", req, NoOut)
            /\ UNCHANGED <<users, plain, consumed, inflight>>
       ELSE IF password = <<>>
       THEN /\ resp' = Response("resetPassword", 403, "Password is required", req, NoOut)
            /\ UNCHANGED <<users, plain, consumed, inflight>>
       ELSE IF ~ResetPasswordStrong(password)
       THEN /\ resp' = Response("resetPassword", 400, "Password must be at least 8 characters",
                                req, NoOut)
            /\ UNCHANGED <<users, plain, consumed, inflight>>
       ELSE IF u = 0
       THEN /\ resp' = Response("resetPassword", 400, "Invalid or expired token", req, NoOut)
            /\ UNCHANGED <<users, plain, consumed, inflight>>
       ELSE /\ users' = [users EXCEPT ![u] =
                           PreSave(ClearResetToken([@ EXCEPT !.password = password]),
                                   password # users[u].password, salt)]
            /\ plain' = [plain EXCEPT ![u] = password]
            /\ consumed' = consumed \cup {token}
            /\ resp' = Response("resetPassword", 200, "Password Updated Successfully",
                                req, [id |-> u])
            /\ UNCHANGED inflight
    /\ UNCHANGED <<exams, questions, results, now, ctr>>

Tick ==
  /\ now < MaxTicks * TickMs
  /\ now' = now + TickMs
  /\ resp' = Response("tick", 0, "", NoOut, NoOut)
  /\ UNCHANGED <<users, exams, questions, results, ctr, plain, consumed, inflight>>

-----------------------------------------------------------------------------
Init ==
  /\ users = <<>>
  /\ exams = <<>>
  /\ questions = <<>>
  /\ results = <<>>
  /\ now = 0
  /\ resp = Response("init", 0, "", NoOut, NoOut)
  /\ ctr = [resetToken |-> 0, exam |-> 0, question |-> 0, result |-> 0]
  /\ plain = <<>>
  /\ consumed = {}
  /\ inflight = <<>>

NextAuth ==
  \/ RegisterUser
  \/ LoginUser
  \/ ForgotPassword
  \/ VerifyResetToken
  \/ ResetPassword
  \/ Tick

SpecAuth == Init /\ [][NextAuth]_vars

-----------------------------------------------------------------------------
(* Properties of the auth controller *)

ResetRequestWellFormed(req) ==
  req.token # Undefined /\ req.password # <<>> /\ ResetPasswordStrong(req.password)

(* C3: once resetPassword has succeeded with token T, every later             *)
(* resetPassword or verifyResetToken presenting T is refused and changes no   *)
(* user; a request that passes the input checks is answered 400 "Invalid or   *)
(* expired token".                                                            *)
C3_ResetTokenSingleUse ==
  [][(/\ resp'.op \in {"resetPassword", "verifyResetToken"}
      /\ resp'.req.token \in consumed)
     => (/\ users' = users
         /\ resp'.status # 200
         /\ (resp'.op = "verifyResetToken" \/ ResetRequestWellFormed(resp'.req))
              => (resp'.status = 400 /\ resp'.msg = "Invalid or expired token"))]_vars

C3_Witness ==
  /\ resp.op = "resetPassword"
  /\ ResetRequestWellFormed(resp.req)
  /\ resp.status = 400
  /\ resp.req.token \in consumed
  /\ now < ResetTokenTtlMs

(* C4: the stored password is never the plaintext of the current password;    *)
(* a validly shaped login for a registered email succeeds (200 with a token)  *)
(* exactly when the presented password is the current one, and is answered    *)
(* 401 otherwise.                                                             *)
C4_PasswordRoundTrip ==
  /\ \A u \in DOMAIN users : users[u].password # plain[u]
  /\ (resp.op = "loginUser" /\ loginValidator(resp.req))
       => LET u == FindOne(UsersByEmail(resp.req.email))
          IN IF u # 0 /\ resp.req.password = plain[u]
             THEN resp.status = 200 /\ resp.out.token.payload.id = u
             ELSE resp.status = 401

C4_Witness ==
  /\ resp.op = "loginUser"
  /\ resp.status = 200
  /\ resp.req.email = "ann@x.io"
  /\ resp.req.password = PwB
  /\ \E u \in DOMAIN users : u # resp.out.token.payload.id

(* C16: forgotPassword at time t stores its token with expiry t + 1 hour;     *)
(* verifyResetToken and resetPassword accept a token only while now is before *)
(* the expiry stored with it; from the expiry on, both answer 400 "Invalid or *)
(* expired token" (resetPassword once its input checks pass) and no user's    *)
(* password or token fields change.                                           *)
C16_ResetTokenExpiry ==
  [][/\ (resp'.op = "forgotPassword" /\ resp'.out # NoOut)
        => \E u \in DOMAIN users' :
             /\ users'[u].resetToken = resp'.out.token
             /\ users'[u].resetTokenExpiration = now + 60 * 60 * 1000
     /\ resp'.op \in {"verifyResetToken", "resetPassword"}
        => LET holders == {u \in DOMAIN users :
                             /\ resp'.req.token # Undefined
                             /\ users[u].resetToken = resp'.req.token}
               expired == \A u \in holders : now >= users[u].resetTokenExpiration
           IN /\ resp'.status = 200 => ~expired
              /\ expired => users' = users
              /\ (/\ expired
                  /\ resp'.op = "verifyResetToken" \/ ResetRequestWellFormed(resp'.req))
                   => (resp'.status = 400 /\ resp'.msg = "Invalid or expired token")]_vars

C16_Witness ==
  /\ resp.op = "resetPassword"
  /\ ResetRequestWellFormed(resp.req)
  /\ resp.status = 400
  /\ resp.msg = "Invalid or expired token"
  /\ \E u \in DOMAIN users :
       /\ users[u].resetToken = resp.req.token
       /\ users[u].resetTokenExpiration = now

(* C17: a validly shaped loginUser for an email that matches no user and one  *)
(* for a known email with a password that is not the current one receive the *)
(* same response, 401 "Invalid credentials" with no further data, and change *)
(* no stored user.                                                            *)
C17_LoginFailureUniform ==
  [][(resp'.op = "loginUser" /\ loginValidator(resp'.req))
     => LET u == FindOne(UsersByEmail(resp'.req.email))
        IN (u = 0 \/ resp'.req.password # plain[u])
             => /\ resp'.status = 401
                /\ resp'.msg = "Invalid credentials"
                /\ resp'.out = NoOut
                /\ users' = users]_vars

C17_Witness ==
  /\ resp.op = "loginUser"
  /\ loginValidator(resp.req)
  /\ resp.status = 401
  /\ resp.req.email = "bob@x.io"
  /\ UsersByEmail("bob@x.io") = {}
  /\ UsersByEmail("ann@x.io") # {}

(* C18: forgotPassword for a registered email is answered 500 when sending    *)
(* the reset email failed and 200 only when the email was sent.               *)
C18_ForgotPasswordMailFailure ==
  (resp.op = "forgotPassword" /\ resp.out # NoOut)
  => IF resp.out.sent THEN resp.status = 200 ELSE resp.status = 500

-----------------------------------------------------------------------------
(* Seeded accounts: the users collection after Ann (student) and Bob (admin) *)
(* have registered.                                                          *)

SeedBodies ==
  <<RegisterBody("Ann", "ann@x.io", PwA, "student", 111),
    RegisterBody("Bob", "bob@x.io", PwB, "admin", 222),
    RegisterBody("Cy", "cy@x.io", PwA, "student", 333),
    RegisterBody("Dee", "dee@x.io", PwB, "admin", 444)>>

SeedUsers(n) == [u \in 1..n |-> NewUserAt(SeedBodies[u])]

SeedPlain(n) == [u \in 1..n |-> SeedBodies[u].password]

Identity(u) ==
  [id |-> u, name |-> SeedBodies[u].name, email |-> SeedBodies[u].email,
   role |-> SeedBodies[u].role]

-----------------------------------------------------------------------------
(* Token service and the authentication / authorization middleware *)

CookieParserInstalled == FALSE

jwtVerify(token) == token.signed /\ now < token.exp

verifyToken(token) ==
  IF jwtVerify(token) THEN [ok |-> TRUE, decoded |-> token.payload]
  ELSE [ok |-> FALSE, decoded |-> token.payload]

Passed(user) == [next |-> TRUE, status |-> 0, msg |-> "", user |-> <<user>>]

Rejected(status, msg) == [next |-> FALSE, status |-> status, msg |-> msg, user |-> <<>>]

HeaderToken(req) ==
  IF Len(req.authorization) = 2 /\ req.authorization[1] = "Bearer"
  THEN <<req.authorization[2]>> ELSE <<>>

FallbackToken(req) == IF req.cookieToken # <<>> THEN req.cookieToken ELSE req.bodyToken

auth(req) ==
  IF HeaderToken(req) = <<>> /\ ~CookieParserInstalled
  THEN Rejected(401, "Authentication failed: Invalid or expired token")
  ELSE LET token == IF HeaderToken(req) # <<>> THEN HeaderToken(req)
                    ELSE FallbackToken(req)
       IN IF token = <<>>
          THEN Rejected(401, "Authentication failed: Token is missing")
          ELSE IF ~verifyToken(token[1]).ok
          THEN Rejected(401, "Authentication failed: Invalid or expired token")
          ELSE IF "id" \notin DOMAIN verifyToken(token[1]).decoded
          THEN Rejected(401, "Authentication failed: Invalid token payload")
          ELSE Passed(verifyToken(token[1]).decoded)

isAdmin_AllowAll(user) == Passed(user)

isAdmin(user) ==
  IF user.role # "admin" THEN Rejected(403, "Access denied. Admin only.")
  ELSE Passed(user)

isStudent(user) ==
  IF user.role # "student" THEN Rejected(403, "Access denied. Student only.")
  ELSE Passed(user)

-----------------------------------------------------------------------------
(* Exam controller: createExam *)

InvalidDate == NoDate

DateGE(a, b) == a # InvalidDate /\ b # InvalidDate /\ a >= b

DateGT(a, b) == a # InvalidDate /\ b # InvalidDate /\ a > b

ExamBody(title, startTime, endTime, questionsIsArray) ==
  [title |-> title, startTime |-> startTime, endTime |-> endTime,
   questionsIsArray |-> questionsIsArray, questions |-> <<>>,
   totalMarks |-> 10, passingMarks |-> 5]

NewExam(body, userId) ==
  [title |-> body.title,
   startTime |-> body.startTime,
   endTime |-> body.endTime,
   questions |-> body.questions,
   totalMarks |-> body.totalMarks,
   passingMarks |-> body.passingMarks,
   isActive |-> TRUE,
   createdBy |-> userId]

ExamSaveValid(doc) ==
  doc.title # Undefined /\ doc.startTime # InvalidDate /\ doc.endTime # InvalidDate

Insert(coll, id, doc) == [k \in DOMAIN coll \cup {id} |-> IF k = id THEN doc ELSE coll[k]]

Remove(coll, id) == [k \in DOMAIN coll \ {id} |-> coll[k]]

WindowRejected_Strict(start, end) == DateGT(start, end)

WindowRejected(start, end) == DateGE(start, end)

createExam(body, user) ==
  LET id == ctr.exam + 1
      same == [status |-> 0, msg |-> "", exams |-> exams, ctr |-> ctr, by |-> "createExam"]
  IN IF ~body.questionsIsArray
     THEN [same EXCEPT !.status = 400, !.msg = "Questions must be an array"]
     ELSE IF WindowRejected(body.startTime, body.endTime)
     THEN [same EXCEPT !.status = 400, !.msg = "End time must be after start time"]
     ELSE IF ~ExamSaveValid(NewExam(body, user.id))
     THEN [same EXCEPT !.status = 500, !.msg = "Server Error"]
     ELSE [same EXCEPT !.status = 201, !.msg = "Exam created successfully",
                       !.exams = Insert(exams, id, NewExam(body, user.id)),
                       !.ctr = [ctr EXCEPT !.exam = id]]

-----------------------------------------------------------------------------
(* POST /api/exam/createExam: [auth, isAdmin], createExam *)

IssuedAt0(u) == createAccessToken(Identity(u), 0)

PayloadWithoutId == [name |-> "Bob", email |-> "bob@x.io", role |-> "admin"]

GateTokens ==
  {IssuedAt0(1), IssuedAt0(2),
   [IssuedAt0(2) EXCEPT !.signed = FALSE],
   [payload |-> PayloadWithoutId, exp |-> AccessExpiryMs, signed |-> TRUE]}

GateHeaders ==
  {<<>>} \cup {<<"Bearer", t>> : t \in GateTokens} \cup {<<"Basic", IssuedAt0(2)>>}

GateBodies ==
  {ExamBody("Midterm", 0, TickMs, TRUE), ExamBody("Midterm", TickMs, TickMs, TRUE)}

GateRequests ==
  [authorization : GateHeaders,
   cookieToken : {<<>>, <<IssuedAt0(2)>>},
   bodyToken : {<<>>, <<IssuedAt0(2)>>},
   body : GateBodies]

CreateExamRoute ==
  \E req \in GateRequests :
    LET a == auth(req)
        g == isAdmin(a.user[1])
        r == createExam(req.body, a.user[1])
    IN
    /\ ctr.exam < MaxExams
    /\ IF ~a.next
       THEN /\ resp' = Response("POST /api/exam/createExam", a.status, a.msg, req,
                                [by |-> "auth"])
            /\ UNCHANGED <<exams, ctr>>
       ELSE IF ~g.next
       THEN /\ resp' = Response("POST /api/exam/createExam", g.status, g.msg, req,
                                [by |-> "isAdmin"])
            /\ UNCHANGED <<exams, ctr>>
       ELSE /\ resp' = Response("POST /api/exam/createExam", r.status, r.msg, req,
                                [by |-> "createExam"])
            /\ exams' = r.exams
            /\ ctr' = r.ctr
    /\ UNCHANGED <<users, questions, results, now, plain, consumed, inflight>>

InitSeeded(n) ==
  /\ users = SeedUsers(n)
  /\ plain = SeedPlain(n)
  /\ exams = <<>>
  /\ questions = <<>>
  /\ results = <<>>
  /\ now = 0
  /\ resp = Response("init", 0, "", NoOut, NoOut)
  /\ ctr = [resetToken |-> 0, exam |-> 0, question |-> 0, result |-> 0]
  /\ consumed = {}
  /\ inflight = <<>>

InitGate == InitSeeded(2)

NextGate ==
  \/ CreateExamRoute
  \/ Tick

SpecGate == InitGate /\ [][NextGate]_vars

-----------------------------------------------------------------------------
(* Properties of the middleware chain *)

GateVerified(req) ==
  /\ HeaderToken(req) # <<>>
  /\ jwtVerify(HeaderToken(req)[1])
  /\ "id" \in DOMAIN HeaderToken(req)[1].payload

(* C5: on POST /api/exam/createExam a verified student token is answered 403  *)
(* by isAdmin and no exam is created; a verified admin token reaches          *)
(* createExam, which creates the exam (201) when the body is valid.           *)
C5_RoleGating ==
  [][(resp'.op = "POST /api/exam/createExam" /\ GateVerified(resp'.req))
     => LET user == HeaderToken(resp'.req)[1].payload
        IN /\ user.role = "student"
                => (resp'.status = 403 /\ resp'.out.by = "isAdmin" /\ exams' = exams)
           /\ user.role = "admin"
                => /\ resp'.out.by = "createExam"
                   /\ resp'.req.body.startTime < resp'.req.body.endTime
                        => /\ resp'.status = 201
                           /\ ctr'.exam = ctr.exam + 1
                           /\ ctr'.exam \in DOMAIN exams'
                           /\ exams'[ctr'.exam].createdBy = user.id]_vars

C5_Witness ==
  /\ resp.op = "POST /api/exam/createExam"
  /\ GateVerified(resp.req)
  /\ resp.status = 403
  /\ resp.out.by = "isAdmin"
  /\ \E e \in DOMAIN exams : users[exams[e].createdBy].role = "admin"

ClaimedToken(req) ==
  IF HeaderToken(req) # <<>> THEN HeaderToken(req) ELSE FallbackToken(req)

(* C6: the auth middleware lets a request through exactly when a token was    *)
(* found (header, cookie or body), verifies and carries an id; otherwise it   *)
(* answers 401: "Token is missing" without a token, "Invalid or expired       *)
(* token" on failed verification, "Invalid token payload" without an id.      *)
C6_AuthMiddleware ==
  resp.op = "POST /api/exam/createExam"
  => LET t == ClaimedToken(resp.req)
     IN /\ (resp.out.by # "auth")
             <=> (t # <<>> /\ jwtVerify(t[1]) /\ "id" \in DOMAIN t[1].payload)
        /\ resp.out.by = "auth" => resp.status = 401
        /\ t = <<>> => resp.msg = "Authentication failed: Token is missing"
        /\ (t # <<>> /\ ~jwtVerify(t[1]))
             => resp.msg = "Authentication failed: Invalid or expired token"
        /\ (t # <<>> /\ jwtVerify(t[1]) /\ "id" \notin DOMAIN t[1].payload)
             => resp.msg = "Authentication failed: Invalid token payload"

-----------------------------------------------------------------------------
(* Exam controller: updateExam, deleteExam, enrollInExam *)

DateInputs == {0, TickMs, InvalidDate}

CreateExamBodies ==
  {ExamBody("Midterm", s, e, TRUE) : s \in DateInputs, e \in DateInputs}
    \cup {ExamBody(Undefined, 0, TickMs, TRUE), ExamBody("Midterm", 0, TickMs, FALSE)}

MaybeDates == {<<>>} \cup {<<t>> : t \in DateInputs}

UpdateBody(startTime, endTime, isActive) ==
  [startTime |-> startTime, endTime |-> endTime, isActive |-> isActive]

ActiveBodies == {UpdateBody(<<>>, <<>>, <<FALSE>>), UpdateBody(<<>>, <<>>, <<TRUE>>)}

UpdateExamBodies ==
  {UpdateBody(s, e, <<>>) : s \in MaybeDates, e \in MaybeDates} \cup ActiveBodies

EnrollExamBodies ==
  {ExamBody("Midterm", 0, TickMs, TRUE), ExamBody("Midterm", TickMs, TickMs, TRUE)}

Admins == {u \in DOMAIN users : users[u].role = "admin"}

Students == {u \in DOMAIN users : users[u].role = "student"}

ExamIds == 1..MaxExams

Unchanged(status, msg) ==
  [status |-> status, msg |-> msg, exams |-> exams, users |-> users]

CreateExamWith(bodies) ==
  \E body \in bodies, u \in Admins :
    LET r == createExam(body, Identity(u))
    IN /\ ctr.exam < MaxExams
       /\ resp' = Response("createExam", r.status, r.msg, [body |-> body, user |-> u], NoOut)
       /\ exams' = r.exams
       /\ ctr' = r.ctr
       /\ UNCHANGED <<users, questions, results, now, plain, consumed, inflight>>

Updated(exam, body) ==
  [exam EXCEPT
     !.startTime = IF body.startTime # <<>> THEN body.startTime[1] ELSE @,
     !.endTime = IF body.endTime # <<>> THEN body.endTime[1] ELSE @,
     !.isActive = IF body.isActive # <<>> THEN body.isActive[1] ELSE @]

updateExam(examId, body) ==
  IF examId \notin DOMAIN exams
  THEN Unchanged(404, "Exam not found")
  ELSE LET exam == exams[examId]
           start == IF body.startTime # <<>> THEN body.startTime[1] ELSE exam.startTime
           end == IF body.endTime # <<>> THEN body.endTime[1] ELSE exam.endTime
       IN IF (body.startTime # <<>> \/ body.endTime # <<>>) /\ WindowRejected(start, end)
          THEN Unchanged(400, "End time must be after start time")
          ELSE IF ~ExamSaveValid(Updated(exam, body))
          THEN Unchanged(500, "Server Error")
          ELSE [Unchanged(200, "Exam updated successfully")
                  EXCEPT !.exams = [exams EXCEPT ![examId] = Updated(exam, body)]]

UpdateExamWith(bodies) ==
  \E examId \in ExamIds, body \in bodies :
    LET r == updateExam(examId, body)
    IN /\ Admins # {}
       /\ resp' = Response("updateExam", r.status, r.msg,
                           [id |-> examId, body |-> body], NoOut)
       /\ exams' = r.exams
       /\ UNCHANGED <<users, questions, results, now, ctr, plain, consumed, inflight>>

PullEnrolled_None(us, examId) == us

PullEnrolled(us, examId) ==
  [u \in DOMAIN us |->
     [us[u] EXCEPT !.enrolledExams = SelectSeq(@, LAMBDA e : e # examId)]]

deleteExam(examId) ==
  IF examId \notin DOMAIN exams
  THEN Unchanged(404, "Exam not found or already deleted")
  ELSE [Unchanged(200, "Exam Removed Successfully")
          EXCEPT !.users = PullEnrolled(users, examId),
                 !.exams = Remove(exams, examId)]

DeleteExam ==
  \E examId \in ExamIds :
    LET r == deleteExam(examId)
    IN /\ Admins # {}
       /\ resp' = Response("deleteExam", r.status, r.msg, [id |-> examId], NoOut)
       /\ exams' = r.exams
       /\ users' = r.users
       /\ UNCHANGED <<questions, results, now, ctr, plain, consumed, inflight>>

EnrollParams == {[examId |-> e] : e \in ExamIds} \cup {[id |-> 1]}

AlreadyEnrolled_Never(user, examId) == FALSE

AlreadyEnrolled(user, examId) == examId \in Range(user.enrolledExams)

enrollInExam(params, userId) ==
  IF "examId" \notin DOMAIN params \/ params.examId \notin DOMAIN exams
  THEN Unchanged(404, "Exam not found")
  ELSE LET examId == params.examId
           exam == exams[examId]
           user == users[userId]
       IN IF ~exam.isActive
          THEN Unchanged(400, "Exam is not active")
          ELSE IF DateGT(now, exam.endTime)
          THEN Unchanged(400, "Enrollment period has ended")
          ELSE IF AlreadyEnrolled(user, examId)
          THEN Unchanged(200, "You are already enrolled in this exam")
          ELSE [Unchanged(200, "Successfully Enrolled in exam")
                  EXCEPT !.users =
                    [users EXCEPT ![userId] =
                       PreSave([user EXCEPT !.enrolledExams = Append(@, examId)],
                               FALSE, Undefined)]]

EnrollInExam ==
  \E params \in EnrollParams, u \in Students :
    LET r == enrollInExam(params, u)
    IN /\ resp' = Response("enrollInExam", r.status, r.msg,
                           [params |-> params, user |-> u], NoOut)
       /\ users' = r.users
       /\ UNCHANGED <<exams, questions, results, now, ctr, plain, consumed, inflight>>

InitExam == InitSeeded(3)

CreateExam == CreateExamWith(CreateExamBodies)

UpdateExam == UpdateExamWith(UpdateExamBodies)

NextExam ==
  \/ CreateExam
  \/ UpdateExam
  \/ DeleteExam
  \/ Tick

SpecExam == InitExam /\ [][NextExam]_vars

CreateExamForEnroll == CreateExamWith(EnrollExamBodies)

SetExamActive == UpdateExamWith(ActiveBodies)

NextEnroll ==
  \/ CreateExamForEnroll
  \/ SetExamActive
  \/ EnrollInExam
  \/ DeleteExam
  \/ Tick

SpecEnroll == InitExam /\ [][NextEnroll]_vars

-----------------------------------------------------------------------------
(* Properties of the exam controller *)

NoDuplicateEnrollment(us) ==
  \A u \in DOMAIN us :
    \A i, j \in DOMAIN us[u].enrolledExams :
      us[u].enrolledExams[i] = us[u].enrolledExams[j] => i = j

Enrollable(examId) ==
  /\ examId \in DOMAIN exams
  /\ exams[examId].isActive
  /\ ~DateGT(now, exams[examId].endTime)

WindowOrdered(exam) ==
  /\ exam.startTime # InvalidDate
  /\ exam.endTime # InvalidDate
  /\ exam.startTime < exam.endTime

ValidDates(start, end) == start # InvalidDate /\ end # InvalidDate

(* C8: every stored exam has startTime strictly before endTime. A createExam  *)
(* or updateExam request whose resulting window (a missing side taken from    *)
(* the stored exam) has end <= start is answered 400 and no exam is created   *)
(* or changed; one whose resulting window has start < end is accepted and     *)
(* stored with that window.                                                   *)
C8_ExamWindow ==
  [][/\ \A e \in DOMAIN exams' : WindowOrdered(exams'[e])
     /\ (/\ resp'.op = "createExam"
         /\ ValidDates(resp'.req.body.startTime, resp'.req.body.endTime)
         /\ resp'.req.body.endTime <= resp'.req.body.startTime)
        => (resp'.status = 400 /\ exams' = exams)
     /\ (/\ resp'.op = "createExam"
         /\ ValidDates(resp'.req.body.startTime, resp'.req.body.endTime)
         /\ resp'.req.body.startTime < resp'.req.body.endTime
         /\ resp'.req.body.title # Undefined
         /\ resp'.req.body.questionsIsArray)
        => /\ resp'.status = 201
           /\ ctr'.exam \in DOMAIN exams' \ DOMAIN exams
           /\ exams'[ctr'.exam].startTime = resp'.req.body.startTime
           /\ exams'[ctr'.exam].endTime = resp'.req.body.endTime
     /\ (/\ resp'.op = "updateExam"
         /\ resp'.req.id \in DOMAIN exams
         /\ (resp'.req.body.startTime # <<>> \/ resp'.req.body.endTime # <<>>))
        => LET body == resp'.req.body
               start == IF body.startTime # <<>> THEN body.startTime[1]
                        ELSE exams[resp'.req.id].startTime
               end == IF body.endTime # <<>> THEN body.endTime[1]
                      ELSE exams[resp'.req.id].endTime
           IN /\ (ValidDates(start, end) /\ end <= start)
                   => /\ resp'.status = 400
                      /\ resp'.msg = "End time must be after start time"
                      /\ exams' = exams
              /\ (ValidDates(start, end) /\ start < end)
                   => /\ resp'.status = 200
                      /\ exams'[resp'.req.id].startTime = start
                      /\ exams'[resp'.req.id].endTime = end]_vars

C8_Witness ==
  /\ resp.op = "updateExam"
  /\ resp.status = 400
  /\ resp.msg = "End time must be after start time"
  /\ resp.req.body.endTime = <<>>
  /\ resp.req.id \in DOMAIN exams
  /\ resp.req.body.startTime[1] = exams[resp.req.id].endTime

(* C9: deleteExam of an existing exam E answers 200, removes E and leaves E   *)
(* in no user's enrolledExams, touching no other enrollment; deleteExam of a  *)
(* missing exam answers 404 and changes neither users nor exams.              *)
C9_DeleteExamCascade ==
  [][resp'.op = "deleteExam"
     => LET E == resp'.req.id
        IN IF E \in DOMAIN exams
           THEN /\ resp'.status = 200
                /\ E \notin DOMAIN exams'
                /\ \A u \in DOMAIN users' :
                     /\ E \notin Range(users'[u].enrolledExams)
                     /\ users'[u].enrolledExams =
                          SelectSeq(users[u].enrolledExams, LAMBDA x : x # E)
           ELSE /\ resp'.status = 404
                /\ users' = users
                /\ exams' = exams]_vars

C9_Witness ==
  /\ resp.op = "deleteExam"
  /\ resp.status = 200
  /\ resp.req.id = 1
  /\ \E u, v \in DOMAIN users :
       /\ users[u].enrolledExams = <<2>>
       /\ users[v].enrolledExams = <<>>
       /\ users[v].role = "student"

-----------------------------------------------------------------------------
(* Question controller: createQuestion, deleteQuestion *)

MaxQuestions == 3

QuestionIds == 1..MaxQuestions

DigitChars == <<"0", "1", "2", "3", "4", "5", "6", "7", "8", "9">>

NaN == NoDate

DigitValue(c) == (CHOOSE i \in DOMAIN DigitChars : DigitChars[i] = c) - 1

isNumeric(str) == str # <<>> /\ \A i \in DOMAIN str : str[i] \in Range(DigitChars)

RECURSIVE parseInt(_)
parseInt(str) ==
  IF str = <<>> \/ str[1] \notin Range(DigitChars) THEN NaN
  ELSE LET rest == {n \in 1..Len(str) : \A i \in 1..n : str[i] \in Range(DigitChars)}
           n == CHOOSE k \in rest : \A m \in rest : m <= k
       IN IF n = 1 THEN DigitValue(str[1])
          ELSE 10 * parseInt(SubSeq(str, 1, n - 1)) + DigitValue(str[n])

OrDefault(n, default) == IF n = NaN \/ n = 0 THEN default ELSE n

QuestionBody(type, correctAnswer, marks, exam) ==
  [type |-> type, options |-> <<>>, correctAnswer |-> correctAnswer, marks |-> marks,
   exam |-> exam]

MarkInputs == {<<"2">>, <<"3">>, <<"5">>}

MaybeExams == {<<>>} \cup {<<e>> : e \in ExamIds}

QuestionBodies ==
  {QuestionBody("true-false", "true", m, e) : m \in MarkInputs, e \in MaybeExams}
    \cup {QuestionBody("true-false", "true", <<"0">>, <<1>>),
          QuestionBody("true-false", "true", <<"x">>, <<1>>),
          QuestionBody("true-false", "maybe", <<"2">>, <<1>>),
          QuestionBody("short-answer", "four", <<"2">>, <<1>>),
          QuestionBody("essay", "four", <<"2">>, <<1>>)}

questionValidator(body) ==
  /\ body.type \in {"multiple-choice", "true-false", "short-answer"}
  /\ isNumeric(body.marks)
  /\ body.correctAnswer # ""

QuestionSaveValid(doc) == doc.type \in {"multiple-choice", "true-false"}

NewQuestion(body, userId) ==
  [type |-> body.type,
   options |-> IF body.type = "multiple-choice" THEN body.options ELSE <<>>,
   correctAnswer |-> body.correctAnswer,
   marks |-> OrDefault(parseInt(body.marks), 1),
   createdBy |-> userId,
   exam |-> body.exam]

AddToSet_Skip(seq, x) == seq

AddToSet(seq, x) == IF x \in Range(seq) THEN seq ELSE Append(seq, x)

Populate(ids, qs) == SelectSeq(ids, LAMBDA q : q \in DOMAIN qs)

SelectFields_All(doc, fields) == doc

SelectFields(doc, fields) == [f \in (fields \cap DOMAIN doc) |-> doc[f]]

StudentQuestionFields == {"text", "type", "options", "marks"}

(* populate(path, select): the referenced documents that exist, each reduced  *)
(* to the selected fields and its _id                                         *)
PopulateSelect(ids, qs, fields) ==
  LET found == Populate(ids, qs)
  IN [k \in DOMAIN found |->
        SelectFields(qs[found[k]], fields) @@ ("_id" :> found[k])]

RECURSIVE SumMarks(_, _)
SumMarks(ids, qs) ==
  IF ids = <<>> THEN 0
  ELSE (IF Head(ids) \in DOMAIN qs THEN OrDefault(qs[Head(ids)].marks, 0) ELSE 0)
         + SumMarks(Tail(ids), qs)

Kept(status, msg) ==
  [status |-> status, msg |-> msg, exams |-> exams, questions |-> questions, ctr |-> ctr]

createQuestion(body, user) ==
  IF ~questionValidator(body)
  THEN Kept(400, "Validation errors")
  ELSE IF body.type = "multiple-choice" /\ Len(body.options) < 2
  THEN Kept(400, "Multiple-choice questions require at least 2 options")
  ELSE IF body.type = "multiple-choice" /\ "" \in Range(body.options)
  THEN Kept(400, "All options must have content")
  ELSE IF body.type = "multiple-choice" /\ body.correctAnswer \notin Range(body.options)
  THEN Kept(400, "Correct answer must be one of the provided options")
  ELSE IF body.type = "true-false" /\ body.correctAnswer \notin {"true", "false"}
  THEN Kept(400, "True/False questions require correct answer to be true or false")
  ELSE IF body.exam # <<>> /\ body.exam[1] \notin DOMAIN exams
  THEN Kept(400, "Invalid exam ID")
  ELSE IF ~QuestionSaveValid(NewQuestion(body, user.id))
  THEN Kept(500, "Failed to create question")
  ELSE LET id == ctr.question + 1
           qs == Insert(questions, id, NewQuestion(body, user.id))
           listed == AddToSet(exams[body.exam[1]].questions, id)
       IN [Kept(201, "Question created successfully")
             EXCEPT !.questions = qs,
                    !.ctr = [ctr EXCEPT !.question = id],
                    !.exams =
                      IF body.exam = <<>> THEN exams
                      ELSE [exams EXCEPT ![body.exam[1]] =
                              [@ EXCEPT !.questions = listed,
                                        !.totalMarks = SumMarks(listed, qs)]]]

CreateQuestionWith(bodies) ==
  \E body \in bodies, u \in Admins :
    LET r == createQuestion(body, Identity(u))
    IN /\ ctr.question < MaxQuestions
       /\ resp' = Response("createQuestion", r.status, r.msg,
                           [body |-> body, user |-> u], NoOut)
       /\ exams' = r.exams
       /\ questions' = r.questions
       /\ ctr' = r.ctr
       /\ UNCHANGED <<users, results, now, plain, consumed, inflight>>

PullQuestion(es, questionId) ==
  [e \in DOMAIN es |->
     [es[e] EXCEPT !.questions = SelectSeq(@, LAMBDA q : q # questionId)]]

deleteQuestion(questionId) ==
  IF questionId \notin DOMAIN questions
  THEN Kept(404, "Question not found")
  ELSE [Kept(200, "Question removed successfully")
          EXCEPT !.exams = IF questions[questionId].exam # <<>>
                           THEN PullQuestion(exams, questionId)
                           ELSE exams,
                 !.questions = Remove(questions, questionId)]

DeleteQuestion ==
  \E questionId \in QuestionIds :
    LET r == deleteQuestion(questionId)
    IN /\ Admins # {}
       /\ resp' = Response("deleteQuestion", r.status, r.msg, [id |-> questionId], NoOut)
       /\ exams' = r.exams
       /\ questions' = r.questions
       /\ UNCHANGED <<users, results, now, ctr, plain, consumed, inflight>>

(* Exam bodies that list questions: a client can only name ids it was given. *)
ListingExamBodies ==
  {[ExamBody("Midterm", 0, TickMs, TRUE) EXCEPT !.questions = ids] :
     ids \in {<<>>} \cup {<<q>> : q \in DOMAIN questions}}

CreateExamListing == CreateExamWith(ListingExamBodies)

CreateQuestion == CreateQuestionWith(QuestionBodies)

NextQuestion ==
  \/ CreateExamListing
  \/ CreateQuestion
  \/ DeleteQuestion

SpecQuestion == InitExam /\ [][NextQuestion]_vars

(* C10: after a successful deleteQuestion of Q, every exam that listed Q no   *)
(* longer lists it and its totalMarks equals the sum of the marks of the      *)
(* questions it still lists.                                                  *)
C10_DeleteQuestionCascade ==
  [][(resp'.op = "deleteQuestion" /\ resp'.status = 200)
     => \A e \in DOMAIN exams :
          resp'.req.id \in Range(exams[e].questions)
            => /\ resp'.req.id \notin Range(exams'[e].questions)
               /\ exams'[e].totalMarks = SumMarks(exams'[e].questions, questions')]_vars

-----------------------------------------------------------------------------
(* Result controller: submitExam *)

MaxResults == 1

Options == {"true", "false"}

Answer(question, selectedOption) ==
  [question |-> question, selectedOption |-> selectedOption]

AnswerSheets ==
  {<<>>}
    \cup {<<Answer(q, o)>> : q \in QuestionIds, o \in Options}
    \cup {<<Answer(p[1], "true"), Answer(p[2], "true")>> :
            p \in {pair \in QuestionIds \X QuestionIds : pair[1] <= pair[2]}}

UndatedSheets == {<<Answer(1, "true")>>}

SubmitBodies ==
  {[examId |-> e, answers |-> a, startTime |-> 0] : e \in ExamIds, a \in AnswerSheets}
    \cup {[examId |-> e, answers |-> a, startTime |-> InvalidDate] :
            e \in ExamIds, a \in UndatedSheets}

NoScore == [totalScore |-> 0, totalMarks |-> 0, answers |-> <<>>]

RECURSIVE Graded(_, _, _)
Graded(answers, examQuestions, acc) ==
  IF answers = <<>> THEN acc
  ELSE LET answer == Head(answers)
           found == answer.question \in Range(examQuestions)
           question == questions[answer.question]
           isCorrect == question.correctAnswer = answer.selectedOption
       IN Graded(Tail(answers), examQuestions,
                 IF ~found THEN acc
                 ELSE [totalScore |-> acc.totalScore
                                        + (IF isCorrect THEN question.marks ELSE 0),
                       totalMarks |-> acc.totalMarks + question.marks,
                       answers |-> Append(acc.answers,
                                          [question |-> answer.question,
                                           selectedOption |-> answer.selectedOption,
                                           isCorrect |-> isCorrect])])

Ratio(num, den) == [num |-> num, den |-> den]

Percentage(totalScore, totalMarks) ==
  IF totalScore = 0 THEN Ratio(0, 1) ELSE Ratio(totalScore * 100, totalMarks)

RatioGE(a, b) == a.den > 0 /\ b.den > 0 /\ a.num * b.den >= b.num * a.den

Threshold_RawMarks(examData) == Ratio(examData.passingMarks, 1)

Threshold(examData) == Ratio(examData.passingMarks * 100, examData.totalMarks)

PushCompleted_None(us, userId, examId, resultId) == us

PushCompleted(us, userId, examId, resultId) ==
  [us EXCEPT ![userId].completedExams =
     Append(@, [exam |-> examId, result |-> resultId])]

Scored(status, msg) ==
  [status |-> status, msg |-> msg, results |-> results, users |-> users, ctr |-> ctr]

submitExam(body, user) ==
  IF body.examId \notin DOMAIN exams
  THEN Scored(404, "Exam not found")
  ELSE LET examData == exams[body.examId]
           g == Graded(body.answers, Populate(examData.questions, questions), NoScore)
           percentage == Percentage(g.totalScore, g.totalMarks)
           id == ctr.result + 1
           newResult == [exam |-> body.examId,
                         student |-> user.id,
                         answers |-> g.answers,
                         totalScore |-> g.totalScore,
                         percentage |-> percentage,
                         isPassed |-> RatioGE(percentage, Threshold(examData)),
                         startTime |-> body.startTime]
       IN IF g.totalMarks = 0
          THEN Scored(400, "No valid questions answered")
          ELSE IF body.startTime = InvalidDate
          THEN Scored(500, "Internal Server Error")
          ELSE [Scored(201, "Exam submitted successfully")
                  EXCEPT !.results = Insert(results, id, newResult),
                         !.ctr = [ctr EXCEPT !.result = id],
                         !.users = PushCompleted(users, user.id, body.examId, id)]

SubmitExamWith(bodies, max) ==
  \E body \in bodies, u \in Students :
    LET r == submitExam(body, Identity(u))
    IN /\ ctr.result < max
       /\ resp' = Response("submitExam", r.status, r.msg,
                           [examId |-> body.examId, answered |-> Len(body.answers),
                            dated |-> body.startTime # InvalidDate, user |-> u], NoOut)
       /\ results' = r.results
       /\ users' = r.users
       /\ ctr' = r.ctr
       /\ UNCHANGED <<exams, questions, now, plain, consumed, inflight>>

SubmitExam == SubmitExamWith(SubmitBodies, MaxResults)

GradeExamBodies == {ExamBody("Midterm", 0, TickMs, TRUE)}

GradeQuestionBodies ==
  {QuestionBody("true-false", "true", m, <<1>>) : m \in MarkInputs}

CreateExamForGrade == CreateExamWith(GradeExamBodies)

CreateQuestionForGrade == CreateQuestionWith(GradeQuestionBodies)

InitGrade == InitSeeded(2)

NextGrade ==
  \/ CreateExamForGrade
  \/ CreateQuestionForGrade
  \/ SubmitExam

SpecGrade == InitGrade /\ [][NextGrade]_vars

(* C1: every accepted submission stores                                       *)
(* percentage = (totalScore / exam.totalMarks) x 100, whatever subset of the  *)
(* exam's questions was answered.                                             *)
C1_PercentageOfExamTotal ==
  (resp.op = "submitExam" /\ resp.status = 201)
  => LET r == results[ctr.result]
     IN r.percentage.num * exams[r.exam].totalMarks
          = r.totalScore * 100 * r.percentage.den

(* C2: the Result created by submitExam has                                   *)
(* isPassed = (percentage >= (exam.passingMarks / exam.totalMarks) x 100),    *)
(* with the percentage stored in that Result and the exam's passingMarks and  *)
(* totalMarks at submission time.                                             *)
C2_IsPassedThreshold ==
  (resp.op = "submitExam" /\ resp.status = 201)
  => LET r == results[ctr.result]
         examData == exams[r.exam]
     IN r.isPassed
          <=> (r.percentage.num * examData.totalMarks
                 >= examData.passingMarks * 100 * r.percentage.den)

C2_Witness ==
  /\ resp.op = "submitExam"
  /\ resp.status = 201
  /\ results[ctr.result].isPassed
  /\ results[ctr.result].totalScore = 5
  /\ Len(results[ctr.result].answers) = 2
  /\ exams[results[ctr.result].exam].totalMarks = 10
  /\ exams[results[ctr.result].exam].passingMarks = 5

SubmitQuestionBodies == {QuestionBody("true-false", "true", <<"5">>, <<1>>)}

CreateQuestionForSubmit == CreateQuestionWith(SubmitQuestionBodies)

NextSubmit ==
  \/ CreateExamForGrade
  \/ CreateQuestionForSubmit
  \/ SubmitExam

SpecSubmit == InitGrade /\ [][NextSubmit]_vars

(* C14: every submitExam answered 201 creates exactly one Result and appends  *)
(* exactly one {exam, result} pair for it to the submitting student's         *)
(* completedExams, leaving every other user as it was; a submitExam answered  *)
(* 400 or 404 creates no Result and leaves completedExams unchanged.          *)
C14_SubmitExamRecordsOnce ==
  [][resp'.op = "submitExam"
     => /\ resp'.status = 201
           => LET created == DOMAIN results' \ DOMAIN results
                  u == resp'.req.user
              IN /\ Cardinality(created) = 1
                 /\ \A r \in DOMAIN results : results'[r] = results[r]
                 /\ \A r \in created :
                      /\ results'[r].student = u
                      /\ results'[r].exam = resp'.req.examId
                      /\ users'[u].completedExams
                           = Append(users[u].completedExams,
                                    [exam |-> resp'.req.examId, result |-> r])
                 /\ \A v \in DOMAIN users \ {u} : users'[v] = users[v]
                 /\ DOMAIN users' = DOMAIN users
        /\ resp'.status \in {400, 404}
           => results' = results /\ users' = users]_vars

C14_Witness ==
  /\ resp.op = "submitExam"
  /\ resp.status = 201
  /\ DOMAIN results = {1}
  /\ users[resp.req.user].completedExams = <<[exam |-> results[1].exam, result |-> 1]>>
  /\ \A v \in DOMAIN users \ {resp.req.user} : users[v].completedExams = <<>>

-----------------------------------------------------------------------------
(* Submissions against exams whose totalMarks is 0 *)

ZeroExamBodies ==
  {[ExamBody("Quiz", 0, TickMs, TRUE)
      EXCEPT !.questions = q, !.totalMarks = 0, !.passingMarks = 0] :
     q \in {<<>>, <<1>>}}

ZeroQuestionBodies == {QuestionBody("true-false", "true", <<"5">>, <<>>)}

CreateExamForZero == CreateExamWith(ZeroExamBodies)

CreateQuestionForZero == CreateQuestionWith(ZeroQuestionBodies)

NextZero ==
  \/ CreateExamForZero
  \/ CreateQuestionForZero
  \/ SubmitExam

SpecZero == InitGrade /\ [][NextZero]_vars

(* C15: a dated submitExam against an existing exam whose totalMarks is 0, or *)
(* whose question list is empty so that the considered marks sum to 0, is     *)
(* answered 201 with a Result whose percentage is 0.                          *)
C15_ZeroDivisionSafe ==
  (/\ resp.op = "submitExam"
   /\ resp.req.dated
   /\ resp.req.examId \in DOMAIN exams
   /\ \/ exams[resp.req.examId].totalMarks = 0
      \/ exams[resp.req.examId].questions = <<>>)
  => /\ resp.status = 201
     /\ results[ctr.result].percentage.num = 0

-----------------------------------------------------------------------------
(* Question controller: addQuestionsToExam, updateQuestion *)

ChoiceBody(options, correctAnswer, marks, exam) ==
  [QuestionBody("multiple-choice", correctAnswer, marks, exam) EXCEPT !.options = options]

AnswerQuestionBodies ==
  {ChoiceBody(<<"a", "b">>, "a", <<"2">>, <<1>>),
   ChoiceBody(<<"a", "b">>, "z", <<"2">>, <<1>>),
   ChoiceBody(<<"a">>, "a", <<"2">>, <<1>>),
   ChoiceBody(<<"a", "">>, "a", <<"2">>, <<1>>),
   QuestionBody("true-false", "true", <<"3">>, <<1>>),
   QuestionBody("true-false", "yes", <<"3">>, <<1>>)}

QuestionLists ==
  {<<>>,
   <<ChoiceBody(<<"a", "", "b">>, "b", <<"x">>, <<>>)>>,
   <<QuestionBody("essay", "four", <<"2">>, <<>>)>>,
   <<ChoiceBody(<<"a", "b">>, "z", <<"2">>, <<>>),
     QuestionBody("true-false", "false", <<"5">>, <<>>)>>,
   <<QuestionBody("true-false", "true", <<"3">>, <<>>),
     QuestionBody("short-answer", "four", <<"2">>, <<>>)>>}

NonEmptyOptions(options) == SelectSeq(options, LAMBDA opt : opt # "")

QuestionDataValid(data) ==
  CASE data.type = "multiple-choice" ->
         /\ Len(data.options) >= 2
         /\ Len(NonEmptyOptions(data.options)) >= 2
         /\ data.correctAnswer \in Range(NonEmptyOptions(data.options))
    [] data.type = "true-false" -> data.correctAnswer \in {"true", "false"}
    [] data.type = "short-answer" -> data.correctAnswer # ""
    [] OTHER -> FALSE

NewExamQuestion(data, userId, examId) ==
  [type |-> data.type,
   options |-> IF data.type = "multiple-choice" THEN NonEmptyOptions(data.options)
               ELSE <<>>,
   correctAnswer |-> data.correctAnswer,
   marks |-> OrDefault(parseInt(data.marks), 1),
   createdBy |-> userId,
   exam |-> <<examId>>]

NoneAdded ==
  [questions |-> questions, exams |-> exams, ctr |-> ctr, created |-> 0, threw |-> FALSE]

RECURSIVE AddEach(_, _, _, _)
AddEach(list, examId, userId, acc) ==
  IF list = <<>> \/ acc.threw THEN acc
  ELSE LET data == Head(list)
           doc == NewExamQuestion(data, userId, examId)
           id == acc.ctr.question + 1
       IN AddEach(Tail(list), examId, userId,
                  IF ~QuestionDataValid(data) THEN acc
                  ELSE IF ~QuestionSaveValid(doc) THEN [acc EXCEPT !.threw = TRUE]
                  ELSE [questions |-> Insert(acc.questions, id, doc),
                        exams |-> [acc.exams EXCEPT ![examId].questions = AddToSet(@, id)],
                        ctr |-> [acc.ctr EXCEPT !.question = id],
                        created |-> acc.created + 1,
                        threw |-> FALSE])

MayModifyExam(exam, user) ==
  IF exam.createdBy = user.id THEN "yes"
  ELSE IF "roles" \notin DOMAIN user THEN "throws"
  ELSE IF "admin" \in user.roles THEN "yes" ELSE "no"

addQuestionsToExam(examId, list, user) ==
  IF list = <<>>
  THEN Kept(400, "Questions must be provided as an array with at least one question")
  ELSE IF examId \notin DOMAIN exams
  THEN Kept(404, "Exam not found")
  ELSE IF MayModifyExam(exams[examId], user) = "throws"
  THEN Kept(500, "Failed to add questions to exam")
  ELSE IF MayModifyExam(exams[examId], user) = "no"
  THEN Kept(403, "You don't have permission to modify this exam")
  ELSE LET added == AddEach(list, examId, user.id, NoneAdded)
           wrote(status, msg) ==
             [status |-> status, msg |-> msg, exams |-> added.exams,
              questions |-> added.questions, ctr |-> added.ctr]
       IN IF added.threw
          THEN wrote(500, "Failed to add questions to exam")
          ELSE IF added.created = 0
          THEN wrote(400, "No valid questions were provided")
          ELSE [wrote(201, "questions added successfully")
                  EXCEPT !.exams[examId].totalMarks =
                    SumMarks(added.exams[examId].questions, added.questions)]

AddQuestionsToExamWith(lists) ==
  \E examId \in ExamIds, list \in lists, u \in Admins :
    LET r == addQuestionsToExam(examId, list, Identity(u))
    IN /\ ctr.question + Len(list) <= MaxQuestions
       /\ resp' = Response("addQuestionsToExam", r.status, r.msg,
                           [examId |-> examId, questions |-> list, user |-> u], NoOut)
       /\ exams' = r.exams
       /\ questions' = r.questions
       /\ ctr' = r.ctr
       /\ UNCHANGED <<users, results, now, plain, consumed, inflight>>

AddQuestionsToExam == AddQuestionsToExamWith(QuestionLists)

QuestionUpdate(type, options, correctAnswer, marks) ==
  [type |-> type, options |-> options, correctAnswer |-> correctAnswer, marks |-> marks]

QuestionUpdates ==
  {QuestionUpdate(<<>>, <<<<"c", "d">>>>, <<>>, <<>>),
   QuestionUpdate(<<>>, <<<<"c", "d">>>>, <<"c">>, <<>>),
   QuestionUpdate(<<>>, <<>>, <<"b">>, <<>>),
   QuestionUpdate(<<>>, <<>>, <<"z">>, <<>>),
   QuestionUpdate(<<"essay">>, <<>>, <<>>, <<>>)}

UpdatedQuestion(question, body) ==
  [question EXCEPT
     !.type = IF body.type # <<>> THEN body.type[1] ELSE @,
     !.options = IF body.options # <<>> THEN body.options[1] ELSE @,
     !.correctAnswer = IF body.correctAnswer # <<>> THEN body.correctAnswer[1] ELSE @,
     !.marks = IF body.marks # <<>> THEN body.marks[1] ELSE @]

updateQuestion(questionId, body) ==
  IF questionId \notin DOMAIN questions
  THEN Kept(404, "Question not found")
  ELSE LET question == questions[questionId]
           optionsToCheck == IF body.options # <<>> THEN body.options[1]
                             ELSE question.options
       IN IF body.correctAnswer # <<>> /\ body.correctAnswer[1] \notin Range(optionsToCheck)
          THEN Kept(400, "Correct answer must be one of the provided options")
          ELSE IF ~QuestionSaveValid(UpdatedQuestion(question, body))
          THEN Kept(500, "Server Error")
          ELSE [Kept(200, " Question updated successfully")
                  EXCEPT !.questions[questionId] = UpdatedQuestion(question, body)]

UpdateQuestionWith(bodies) ==
  \E questionId \in QuestionIds, body \in bodies :
    LET r == updateQuestion(questionId, body)
    IN /\ Admins # {}
       /\ resp' = Response("updateQuestion", r.status, r.msg,
                           [id |-> questionId, body |-> body], NoOut)
       /\ questions' = r.questions
       /\ UNCHANGED <<users, exams, results, now, ctr, plain, consumed, inflight>>

UpdateQuestion == UpdateQuestionWith(QuestionUpdates)

CreateQuestionForAnswer == CreateQuestionWith(AnswerQuestionBodies)

NextAnswer ==
  \/ CreateExamForGrade
  \/ CreateQuestionForAnswer
  \/ AddQuestionsToExam
  \/ UpdateQuestion

SpecAnswer == InitExam /\ [][NextAnswer]_vars

AnswerValid(question) ==
  CASE question.type = "multiple-choice" ->
         question.correctAnswer \in Range(question.options)
    [] question.type = "true-false" -> question.correctAnswer \in {"true", "false"}
    [] question.type = "short-answer" -> question.correctAnswer # ""
    [] OTHER -> FALSE

(* C11: every stored question has a correctAnswer that is one of its options  *)
(* (multiple-choice), exactly "true" or "false" (true-false), or non-empty    *)
(* (short-answer).                                                            *)
C11_QuestionAnswerInvariant ==
  \A q \in DOMAIN questions : AnswerValid(questions[q])

-----------------------------------------------------------------------------
(* Exam totals under question creation and deletion *)

TotalsQuestionBodies ==
  {QuestionBody("true-false", "true", <<"2">>, <<1>>),
   QuestionBody("true-false", "true", <<"0">>, <<1>>)}

TotalsQuestionLists ==
  {<<>>,
   <<QuestionBody("true-false", "maybe", <<"3">>, <<>>),
     QuestionBody("true-false", "false", <<"5">>, <<>>)>>,
   <<QuestionBody("true-false", "true", <<"3">>, <<>>),
     ChoiceBody(<<"a", "b">>, "a", <<"x">>, <<>>)>>,
   <<QuestionBody("true-false", "true", <<"3">>, <<>>),
     QuestionBody("short-answer", "four", <<"2">>, <<>>)>>}

CreateQuestionForTotals == CreateQuestionWith(TotalsQuestionBodies)

AddQuestionsForTotals == AddQuestionsToExamWith(TotalsQuestionLists)

NextTotals ==
  \/ CreateExamForGrade
  \/ CreateQuestionForTotals
  \/ AddQuestionsForTotals
  \/ DeleteQuestion

SpecTotals == InitGrade /\ [][NextTotals]_vars

Occurrences(seq, x) == Cardinality({i \in DOMAIN seq : seq[i] = x})

(* C12: when createQuestion with an exam id, or addQuestionsToExam, answers   *)
(* 201, every question it created is listed exactly once in the exam's        *)
(* questions and the exam's totalMarks equals the sum of the marks of the     *)
(* questions then listed.                                                     *)
C12_TotalMarksRecomputed ==
  [][(/\ resp'.status = 201
      /\ \/ resp'.op = "addQuestionsToExam"
         \/ resp'.op = "createQuestion" /\ resp'.req.body.exam # <<>>)
     => LET e == IF resp'.op = "addQuestionsToExam" THEN resp'.req.examId
                 ELSE resp'.req.body.exam[1]
            created == DOMAIN questions' \ DOMAIN questions
        IN /\ created # {}
           /\ \A q \in created : Occurrences(exams'[e].questions, q) = 1
           /\ exams'[e].totalMarks = SumMarks(exams'[e].questions, questions')
           /\ \A q \in DOMAIN exams'[e].questions :
                exams'[e].questions[q] \in DOMAIN questions']_vars

C12_Witness ==
  /\ resp.op = "addQuestionsToExam"
  /\ resp.status = 201
  /\ Len(resp.req.questions) = 2
  /\ exams[resp.req.examId].questions = <<2, 3>>
  /\ exams[resp.req.examId].totalMarks = 4

-----------------------------------------------------------------------------
(* Exam controller: startExam *)

StartExamBodies ==
  {ExamBody("Midterm", 0, TickMs, TRUE), ExamBody("Midterm", TickMs, 2 * TickMs, TRUE)}

startExam(params, userId) ==
  IF "examId" \notin DOMAIN params \/ params.examId \notin DOMAIN exams
  THEN [status |-> 404, msg |-> "Exam not found", out |-> NoOut]
  ELSE LET exam == exams[params.examId]
       IN IF ~exam.isActive \/ DateGT(now, exam.endTime)
          THEN [status |-> 400, msg |-> "Exam is not active or has ended", out |-> NoOut]
          ELSE IF ~AlreadyEnrolled(users[userId], params.examId)
          THEN [status |-> 403, msg |-> "User is not enrolled in this exam", out |-> NoOut]
          ELSE [status |-> 200, msg |-> "Exam started successfully",
                out |-> [examId |-> params.examId,
                         questions |-> PopulateSelect(exam.questions, questions,
                                                      StudentQuestionFields),
                         startTime |-> now,
                         alreadyGiven |->
                           \E r \in DOMAIN results :
                             results[r].student = userId
                               /\ results[r].exam = params.examId]]

StartExam ==
  \E params \in EnrollParams, u \in Students :
    LET r == startExam(params, u)
    IN /\ resp' = Response("startExam", r.status, r.msg,
                           [params |-> params, user |-> u], r.out)
       /\ UNCHANGED <<users, exams, questions, results, now, ctr, plain, consumed, inflight>>

CreateExamForStart == CreateExamWith(StartExamBodies)

NextStart ==
  \/ CreateExamForStart
  \/ SetExamActive
  \/ EnrollInExam
  \/ StartExam
  \/ Tick

SpecStart == InitGrade /\ [][NextStart]_vars

(* C13: startExam answers 200 with the exam's questions only when the exam is *)
(* active, the caller is enrolled in it and startTime <= now <= endTime; in   *)
(* every other case the response carries no questions.                        *)
C13_AttemptWindow ==
  resp.op = "startExam"
  => /\ "questions" \in DOMAIN resp.out => resp.status = 200
     /\ resp.status = 200
          => LET e == resp.req.params.examId
             IN /\ e \in DOMAIN exams
                /\ exams[e].isActive
                /\ e \in Range(users[resp.req.user].enrolledExams)
                /\ exams[e].startTime <= now
                /\ now <= exams[e].endTime

-----------------------------------------------------------------------------
(* Profile controller: updateAccount *)

AccountBody(name, email, phone) == [name |-> name, email |-> email, phone |-> phone]

AccountBodies ==
  {AccountBody("", e, 0) : e \in Emails}
    \cup {AccountBody("Al", "", 0), AccountBody("", "", 333)}

(* The User schema declares no unique index, so the update never fails with a *)
(* duplicate-key error (code 11000).                                          *)
DuplicateKey(userId, updateFields) == FALSE

SetFields(doc, body) ==
  [doc EXCEPT !.name = IF body.name # "" THEN body.name ELSE @,
              !.email = IF body.email # "" THEN body.email ELSE @,
              !.phone = IF body.phone # 0 THEN body.phone ELSE @]

updateAccount(body, userId) ==
  LET same == [status |-> 0, msg |-> "", users |-> users]
  IN IF userId \in DOMAIN users /\ DuplicateKey(userId, body)
     THEN [same EXCEPT !.status = 400, !.msg = "Email already in use"]
     ELSE IF userId \notin DOMAIN users
     THEN [same EXCEPT !.status = 404, !.msg = "User not found"]
     ELSE [same EXCEPT !.status = 200, !.msg = "Account updated successfully",
                       !.users = [users EXCEPT ![userId] = SetFields(@, body)]]

UpdateAccount ==
  \E body \in AccountBodies, u \in DOMAIN users :
    LET r == updateAccount(body, u)
    IN /\ resp' = Response("updateAccount", r.status, r.msg,
                           [body |-> body, user |-> u], NoOut)
       /\ users' = r.users
       /\ UNCHANGED <<exams, questions, results, now, ctr, plain, consumed, inflight>>

NextAccount ==
  \/ RegisterUser
  \/ UpdateAccount

SpecAccount == Init /\ [][NextAccount]_vars

EmailTakenByOther(email, userId) ==
  \E v \in DOMAIN users : v # userId /\ users[v].email = email

(* C19: after every registerUser or updateAccount step no two users share an  *)
(* email; a validly shaped registerUser whose email or phone is already       *)
(* stored is answered 409, and an updateAccount changing the email to one     *)
(* used by another user is answered 400 "Email already in use", each leaving  *)
(* the stored users unchanged.                                                *)
C19_EmailUnique ==
  [][/\ \A u, v \in DOMAIN users' :
          u # v => users'[u].email # users'[v].email
     /\ (/\ resp'.op = "registerUser"
         /\ registerValidator(resp'.req)
         /\ UsersByEmailOrPhone(resp'.req.email, resp'.req.phone) # {})
        => (resp'.status = 409 /\ users' = users)
     /\ (/\ resp'.op = "updateAccount"
         /\ resp'.req.body.email # ""
         /\ EmailTakenByOther(resp'.req.body.email, resp'.req.user))
        => (/\ resp'.status = 400
            /\ resp'.msg = "Email already in use"
            /\ users' = users)]_vars

-----------------------------------------------------------------------------
(* DELETE /api/result/:id: validateObjectId, [(auth, isAdmin)], deleteResult *)

InvalidObjectId == 0

ResultParams == (1..MaxResults) \cup {InvalidObjectId}

DeleteHeaders == {<<>>} \cup {<<"Bearer", IssuedAt0(u)>> : u \in 1..2}

DeleteRequests == [authorization : DeleteHeaders, id : ResultParams]

validateObjectId(id) ==
  IF id = InvalidObjectId THEN Rejected(400, "Invalid exam ID")
  ELSE [next |-> TRUE, status |-> 0, msg |-> "", user |-> <<>>]

(* `(auth, isAdmin)` is a comma expression whose value is isAdmin: the route's *)
(* middleware array holds isAdmin alone, auth is never installed and req.user *)
(* stays undefined.                                                           *)
DeleteMiddlewares == <<"isAdmin">>

RequestUser(req) ==
  IF "auth" \in Range(DeleteMiddlewares) /\ auth(req).next THEN auth(req).user
  ELSE <<>>

(* isAdmin reads req.user.role inside try/catch: with req.user undefined the  *)
(* TypeError is caught and answered 500.                                      *)
isAdminOf(reqUser) ==
  IF reqUser = <<>> THEN Rejected(500, "User Role cannot be verified...")
  ELSE isAdmin(reqUser[1])

deleteResult(resultId) ==
  IF resultId \notin DOMAIN results
  THEN [status |-> 404, msg |-> "Result not found or already deleted",
        results |-> results, out |-> NoOut]
  ELSE [status |-> 200, msg |-> "Result deleted successfully",
        results |-> Remove(results, resultId),
        out |-> [DeletedData |-> results[resultId]]]

DeleteResultRoute ==
  \E req \in DeleteRequests :
    LET reqFull == [authorization |-> req.authorization,
                    cookieToken |-> <<>>, bodyToken |-> <<>>]
        v == validateObjectId(req.id)
        a == IF "auth" \in Range(DeleteMiddlewares) THEN auth(reqFull)
             ELSE [next |-> TRUE, status |-> 0, msg |-> "", user |-> <<>>]
        g == isAdminOf(RequestUser(reqFull))
        r == deleteResult(req.id)
    IN /\ IF ~v.next
          THEN /\ resp' = Response("deleteResult", v.status, v.msg, req, NoOut)
               /\ UNCHANGED results
          ELSE IF ~a.next
          THEN /\ resp' = Response("deleteResult", a.status, a.msg, req, NoOut)
               /\ UNCHANGED results
          ELSE IF ~g.next
          THEN /\ resp' = Response("deleteResult", g.status, g.msg, req, NoOut)
               /\ UNCHANGED results
          ELSE /\ resp' = Response("deleteResult", r.status, r.msg, req, r.out)
               /\ results' = r.results
       /\ UNCHANGED <<users, exams, questions, now, ctr, plain, consumed, inflight>>

NextDelete ==
  \/ CreateExamForGrade
  \/ CreateQuestionForSubmit
  \/ SubmitExam
  \/ DeleteResultRoute

SpecDelete == InitGrade /\ [][NextDelete]_vars

TokenRole(header) == IF header = <<>> THEN "none" ELSE header[2].payload.role

(* C20: on DELETE /api/result/:id for an existing result, a valid admin token *)
(* deletes the Result and is answered 200 with the removed record, leaving    *)
(* every user's completedExams unchanged; a student token is answered 403 and *)
(* a request without token 401, both leaving the Result in place.             *)
C20_DeleteResultAdminOnly ==
  [][(resp'.op = "deleteResult" /\ resp'.req.id \in DOMAIN results)
     => LET role == TokenRole(resp'.req.authorization)
            id == resp'.req.id
        IN /\ role = "admin"
              => /\ resp'.status = 200
                 /\ resp'.out = [DeletedData |-> results[id]]
                 /\ results' = Remove(results, id)
                 /\ users' = users
           /\ role = "student" => (resp'.status = 403 /\ results' = results)
           /\ role = "none" => (resp'.status = 401 /\ results' = results)]_vars

-----------------------------------------------------------------------------
(* Exam controller: getExamAnalytics *)

MaxAttempts == 3

AnalyticsQuestionBodies ==
  {QuestionBody("true-false", "true", m, <<1>>) : m \in {<<"2">>, <<"3">>}}

AnalyticsSheets ==
  {<<Answer(1, "true")>>, <<Answer(1, "false")>>,
   <<Answer(1, "true"), Answer(2, "true")>>,
   <<Answer(1, "true"), Answer(2, "false")>>}

AnalyticsSubmitBodies ==
  {[examId |-> 1, answers |-> a, startTime |-> 0] : a \in AnalyticsSheets}

ResultsOfExam(examId) == {r \in DOMAIN results : results[r].exam = examId}

RECURSIVE SumScores(_)
SumScores(rs) ==
  IF rs = {} THEN 0
  ELSE LET r == CHOOSE x \in rs : TRUE
       IN results[r].totalScore + SumScores(rs \ {r})

(* Number(x.toFixed(2)) for x = num / den >= 0, as a count of hundredths *)
ToFixed2(num, den) == (200 * num + den) \div (2 * den)

PassedOf_All(rs) == rs

PassedOf(rs) == {r \in rs : results[r].isPassed}

MinScore(rs) ==
  CHOOSE m \in {results[r].totalScore : r \in rs} :
    \A r \in rs : m <= results[r].totalScore

MaxScore(rs) ==
  CHOOSE m \in {results[r].totalScore : r \in rs} :
    \A r \in rs : m >= results[r].totalScore

ExamAnalytics(examId) ==
  LET rs == ResultsOfExam(examId)
      totalStudents == Cardinality(rs)
      passedStudents == Cardinality(PassedOf(rs))
  IN IF totalStudents = 0
     THEN [totalStudents |-> 0, passedStudents |-> 0, passRate |-> 0,
           averageScore |-> 0, lowScore |-> 0, highScore |-> 0]
     ELSE [totalStudents |-> totalStudents,
           passedStudents |-> passedStudents,
           passRate |-> ToFixed2(passedStudents * 100, totalStudents),
           averageScore |-> ToFixed2(SumScores(rs), totalStudents),
           lowScore |-> MinScore(rs),
           highScore |-> MaxScore(rs)]

getExamAnalytics(user) ==
  LET found == {e \in DOMAIN exams : exams[e].createdBy = user.id}
  IN IF user.role # "admin"
     THEN [status |-> 403, msg |-> "Only admins can access exam analytics", out |-> NoOut]
     ELSE IF found = {}
     THEN [status |-> 404, msg |-> "No exams found", out |-> NoOut]
     ELSE [status |-> 200, msg |-> "Exam analytics fetched successfully",
           out |-> [data |-> [e \in found |-> ExamAnalytics(e)]]]

GetExamAnalytics ==
  \E u \in DOMAIN users :
    LET g == isAdmin(Identity(u))
        r == getExamAnalytics(Identity(u))
    IN /\ IF ~g.next
          THEN resp' = Response("getExamAnalytics", g.status, g.msg, [user |-> u], NoOut)
          ELSE resp' = Response("getExamAnalytics", r.status, r.msg, [user |-> u], r.out)
       /\ UNCHANGED <<users, exams, questions, results, now, ctr, plain, consumed, inflight>>

CreateQuestionForAnalytics == CreateQuestionWith(AnalyticsQuestionBodies)

SubmitExamForAnalytics == SubmitExamWith(AnalyticsSubmitBodies, MaxAttempts)

NextAnalytics ==
  \/ CreateExamForGrade
  \/ CreateQuestionForAnalytics
  \/ SubmitExamForAnalytics
  \/ GetExamAnalytics

SpecAnalytics == InitGrade /\ [][NextAnalytics]_vars

-----------------------------------------------------------------------------
(* Concurrent requests: a handler split at the await between its reads and    *)
(* its write. A request that has passed its reads waits in inflight.          *)

MaxInflight == 2

Await(op, req) == Response(op, 0, "await", req, NoOut)

Without(seq, i) == [k \in 1..(Len(seq) - 1) |-> IF k < i THEN seq[k] ELSE seq[k + 1]]

(* user.enrolledExams.push(examId); user.save(): Mongoose sends the push as   *)
(* an atomic $push, applied to the array as stored at the time of the write.  *)
SavePush(us, userId, examId) ==
  [us EXCEPT ![userId] =
     PreSave([@ EXCEPT !.enrolledExams = Append(@, examId)], FALSE, Undefined)]

EnrollBegin ==
  \E params \in {[examId |-> e] : e \in ExamIds}, u \in Students :
    LET r == enrollInExam(params, u)
        req == [params |-> params, user |-> u]
    IN /\ Len(inflight) < MaxInflight
       /\ IF r.users = users
          THEN /\ resp' = Response("enrollInExam", r.status, r.msg, req, NoOut)
               /\ UNCHANGED inflight
          ELSE /\ resp' = Await("enrollInExam", req)
               /\ inflight' = Append(inflight, [op |-> "enrollInExam", user |-> u,
                                                examId |-> params.examId])
       /\ UNCHANGED <<users, exams, questions, results, now, ctr, plain, consumed>>

EnrollFinish ==
  \E i \in DOMAIN inflight :
    LET job == inflight[i]
    IN /\ job.op = "enrollInExam"
       /\ users' = SavePush(users, job.user, job.examId)
       /\ inflight' = Without(inflight, i)
       /\ resp' = Response("enrollInExam", 200, "Successfully Enrolled in exam",
                           [params |-> [examId |-> job.examId], user |-> job.user], NoOut)
       /\ UNCHANGED <<exams, questions, results, now, ctr, plain, consumed>>

NextEnrollRace ==
  \/ CreateExamForEnroll
  \/ EnrollBegin
  \/ EnrollFinish

SpecEnrollRace == InitExam /\ [][NextEnrollRace]_vars

(* C22: once no enrollInExam request of a student is in flight, each exam id  *)
(* occurs at most once in that student's enrolledExams, whatever the          *)
(* interleaving of the student's concurrent enrollment requests.              *)
C22_ConcurrentEnrollOnce ==
  \A u \in DOMAIN users :
    (\A i \in DOMAIN inflight : inflight[i].user # u)
    => \A e \in Range(users[u].enrolledExams) :
         Occurrences(users[u].enrolledExams, e) = 1

-----------------------------------------------------------------------------
(* Concurrent resetPassword requests: split between User.findOne and save *)

ResetBegin ==
  \E authHeader \in {<<"Bearer">>} \cup {<<"Bearer", t>> : t \in ResetTokens},
     password \in ResetPasswords :
    LET token == IF Len(authHeader) >= 2 THEN authHeader[2] ELSE Undefined
        req == [token |-> token, password |-> password]
        u == FindOne(UsersByValidResetToken(token))
    IN /\ Len(inflight) < MaxInflight
       /\ IF token = Undefined
          THEN /\ resp' = Response("resetPassword", 403, "Token is required", req, NoOut)
               /\ UNCHANGED inflight
          ELSE IF password = <<>>
          THEN /\ resp' = Response("resetPassword", 403, "Password is required", req, NoOut)
               /\ UNCHANGED inflight
          ELSE IF ~ResetPasswordStrong(password)
          THEN /\ resp' = Response("resetPassword", 400,
                                   "Password must be at least 8 characters", req, NoOut)
               /\ UNCHANGED inflight
          ELSE IF u = 0
          THEN /\ resp' = Response("resetPassword", 400, "Invalid or expired token",
                                   req, NoOut)
               /\ UNCHANGED inflight
          ELSE /\ resp' = Await("resetPassword", req)
               /\ inflight' = Append(inflight, [op |-> "resetPassword", user |-> u,
                                                token |-> token, password |-> password])
       /\ UNCHANGED <<users, exams, questions, results, now, ctr, plain, consumed>>

ResetFinish ==
  \E i \in DOMAIN inflight, salt \in Salts :
    LET job == inflight[i]
    IN /\ job.op = "resetPassword"
       /\ users' = [users EXCEPT ![job.user] =
                      PreSave(ClearResetToken([@ EXCEPT !.password = job.password]),
                              TRUE, salt)]
       /\ plain' = [plain EXCEPT ![job.user] = job.password]
       /\ consumed' = consumed \cup {job.token}
       /\ inflight' = Without(inflight, i)
       /\ resp' = Response("resetPassword", 200, "Password Updated Successfully",
                           [token |-> job.token, password |-> job.password],
                           [id |-> job.user])
       /\ UNCHANGED <<exams, questions, results, now, ctr>>

NextResetRace ==
  \/ ForgotPassword
  \/ ResetBegin
  \/ ResetFinish

SpecResetRace == InitGrade /\ [][NextResetRace]_vars

(* C23: a reset token yields at most one successful resetPassword: no         *)
(* resetPassword presenting a token that has already changed a password is    *)
(* answered 200 or changes a user, whatever the interleaving.                 *)
C23_ResetTokenOnceConcurrent ==
  [][(resp'.op = "resetPassword" /\ resp'.req.token \in consumed)
     => (resp'.status \notin {0, 200} /\ users' = users)]_vars

-----------------------------------------------------------------------------
(* Concurrent createQuestion requests: split between the $addToSet that       *)
(* returns the populated exam and the later write of the recomputed total     *)

CreateQuestionBegin ==
  \E body \in TotalsQuestionBodies, u \in Admins :
    LET r == createQuestion(body, Identity(u))
        req == [body |-> body, user |-> u]
        examId == body.exam[1]
    IN /\ ctr.question < MaxQuestions
       /\ Len(inflight) < MaxInflight
       /\ questions' = r.questions
       /\ ctr' = r.ctr
       /\ IF r.status = 201 /\ body.exam # <<>>
          THEN /\ exams' = [r.exams EXCEPT ![examId].totalMarks = exams[examId].totalMarks]
               /\ inflight' = Append(inflight,
                                     [op |-> "createQuestion", examId |-> examId,
                                      newTotalMarks |-> r.exams[examId].totalMarks,
                                      req |-> req])
               /\ resp' = Await("createQuestion", req)
          ELSE /\ exams' = r.exams
               /\ UNCHANGED inflight
               /\ resp' = Response("createQuestion", r.status, r.msg, req, NoOut)
       /\ UNCHANGED <<users, results, now, plain, consumed>>

CreateQuestionFinish ==
  \E i \in DOMAIN inflight :
    LET job == inflight[i]
    IN /\ job.op = "createQuestion"
       /\ exams' = [e \in DOMAIN exams |->
                      IF e = job.examId
                      THEN [exams[e] EXCEPT !.totalMarks = job.newTotalMarks]
                      ELSE exams[e]]
       /\ inflight' = Without(inflight, i)
       /\ resp' = Response("createQuestion", 201, "Question created successfully",
                           job.req, NoOut)
       /\ UNCHANGED <<users, questions, results, now, ctr, plain, consumed>>

NextQuestionRace ==
  \/ CreateExamForGrade
  \/ CreateQuestionBegin
  \/ CreateQuestionFinish

SpecQuestionRace == InitGrade /\ [][NextQuestionRace]_vars

(* C24: once no createQuestion request for an exam is in flight, the exam's   *)
(* totalMarks equals the sum of the marks of the questions in its list,       *)
(* whatever the interleaving of the requests that attached them.              *)
C24_ConcurrentTotalMarks ==
  \A e \in DOMAIN exams :
    (/\ exams[e].questions # <<>>
     /\ \A i \in DOMAIN inflight : inflight[i].examId # e)
    => exams[e].totalMarks = SumMarks(exams[e].questions, questions)

-----------------------------------------------------------------------------
(* POST /api/question/exam/:examId: [auth, isAdmin], addQuestionsToExam *)

AuthorQuestionLists ==
  {<<QuestionBody("true-false", "true", <<"2">>, <<>>)>>,
   <<QuestionBody("true-false", "false", <<"3">>, <<>>),
     ChoiceBody(<<"a", "b">>, "a", <<"5">>, <<>>)>>}

InitAuthors == InitSeeded(Len(SeedBodies))

AddQuestionsRoute ==
  \E examId \in ExamIds, list \in AuthorQuestionLists, u \in DOMAIN users :
    LET g == isAdmin(Identity(u))
        r == addQuestionsToExam(examId, list, Identity(u))
        req == [examId |-> examId, questions |-> list, user |-> u]
    IN /\ ctr.question + Len(list) <= MaxQuestions
       /\ IF ~g.next
          THEN /\ resp' = Response("addQuestionsToExam", g.status, g.msg, req, NoOut)
               /\ UNCHANGED <<exams, questions, ctr>>
          ELSE /\ resp' = Response("addQuestionsToExam", r.status, r.msg, req, NoOut)
               /\ exams' = r.exams
               /\ questions' = r.questions
               /\ ctr' = r.ctr
       /\ UNCHANGED <<users, results, now, plain, consumed, inflight>>

NextAuthors ==
  \/ CreateExamForGrade
  \/ AddQuestionsRoute

SpecAuthors == InitAuthors /\ [][NextAuthors]_vars

(* C25: addQuestionsToExam for an existing exam with a list of valid          *)
(* questions creates questions (201) when the caller is the exam's creator or *)
(* has the admin role, also an admin who did not create the exam; any other   *)
(* caller is answered 403, no question is created and the exam is unchanged.  *)
C25_AddQuestionsAuthorised ==
  [][(/\ resp'.op = "addQuestionsToExam"
      /\ resp'.req.examId \in DOMAIN exams
      /\ resp'.req.questions \in AuthorQuestionLists)
     => LET u == resp'.req.user
            e == resp'.req.examId
        IN IF exams[e].createdBy = u \/ users[u].role = "admin"
           THEN resp'.status = 201 /\ DOMAIN questions' # DOMAIN questions
           ELSE /\ resp'.status = 403
                /\ questions' = questions
                /\ exams' = exams]_vars

-----------------------------------------------------------------------------
(* Repeated attempts: startExam and submitExam by the same student *)

NextAttempts ==
  \/ CreateExamForGrade
  \/ CreateQuestionForSubmit
  \/ EnrollInExam
  \/ StartExam
  \/ SubmitExamForAnalytics

SpecAttempts == InitGrade /\ [][NextAttempts]_vars

(* C26: at most one Result exists for any (student, exam) pair.               *)
C26_OneResultPerStudentExam ==
  \A r1, r2 \in DOMAIN results :
    (results[r1].student = results[r2].student /\ results[r1].exam = results[r2].exam)
    => r1 = r2

-----------------------------------------------------------------------------
(* Properties of the stored score *)

(* C27: a Result created by submitExam with isPassed = true has a totalScore  *)
(* of at least the exam's passingMarks, whichever questions were answered.    *)
C27_PassedMeetsPassMark ==
  (resp.op = "submitExam" /\ resp.status = 201)
  => LET r == results[ctr.result]
     IN r.isPassed => r.totalScore >= exams[r.exam].passingMarks

(* C28: a Result created by submitExam has 0 <= totalScore <= the exam's      *)
(* totalMarks, and no question is counted as correct more than once in it,    *)
(* also when the submitted answers name a question twice.                     *)
C28_ScoreWithinExamTotal ==
  (resp.op = "submitExam" /\ resp.status = 201)
  => LET r == results[ctr.result]
     IN /\ 0 <= r.totalScore
        /\ r.totalScore <= exams[r.exam].totalMarks
        /\ \A q \in DOMAIN questions :
             Cardinality({k \in DOMAIN r.answers :
                            r.answers[k].question = q /\ r.answers[k].isCorrect}) <= 1

-----------------------------------------------------------------------------
(* Exam controller: getExamById, and the exam payloads served to students *)

getExamById(examId) ==
  IF examId \notin DOMAIN exams
  THEN [status |-> 404, msg |-> "Exam not found", out |-> NoOut]
  ELSE [status |-> 200, msg |-> "Exam fetched successfully",
        out |-> [examId |-> examId,
                 questions |-> PopulateSelect(exams[examId].questions, questions,
                                              StudentQuestionFields)]]

GetExamById ==
  \E examId \in ExamIds, u \in DOMAIN users :
    LET r == getExamById(examId)
    IN /\ resp' = Response("getExamById", r.status, r.msg,
                           [params |-> [id |-> examId], user |-> u], r.out)
       /\ UNCHANGED <<users, exams, questions, results, now, ctr, plain, consumed, inflight>>

NextServe ==
  \/ CreateExamForGrade
  \/ CreateQuestionForSubmit
  \/ EnrollInExam
  \/ StartExam
  \/ GetExamById

SpecServe == InitGrade /\ [][NextServe]_vars

(* C29: every question in an exam payload served by startExam or getExamById  *)
(* to a student carries no correctAnswer: apart from its id it has only       *)
(* fields among text, type, options and marks.                                *)
C29_NoCorrectAnswerInExamPayload ==
  (/\ resp.op \in {"startExam", "getExamById"}
   /\ resp.status = 200
   /\ users[resp.req.user].role = "student")
  => \A k \in DOMAIN resp.out.questions :
       /\ "correctAnswer" \notin DOMAIN resp.out.questions[k]
       /\ DOMAIN resp.out.questions[k] \subseteq {"_id", "text", "type", "options", "marks"}

C29_Witness ==
  /\ resp.op = "startExam"
  /\ resp.status = 200
  /\ users[resp.req.user].role = "student"
  /\ Len(resp.out.questions) = 2
  /\ \A k \in DOMAIN resp.out.questions :
       /\ "marks" \in DOMAIN resp.out.questions[k]
       /\ questions[resp.out.questions[k]["_id"]].correctAnswer = "true"

-----------------------------------------------------------------------------
(* Question controller: getAllQuestionsByExamId (public) and getQuestionById  *)
(* ([auth])                                                                   *)

Anonymous == 0

getAllQuestionsByExamId(examId) ==
  [status |-> 200, msg |-> "All Questions fetched successfully",
   out |-> [data |-> [q \in {x \in DOMAIN questions : questions[x].exam = <<examId>>}
                        |-> questions[q]]]]

GetAllQuestionsByExamId ==
  \E examId \in ExamIds, u \in DOMAIN users \cup {Anonymous} :
    LET r == getAllQuestionsByExamId(examId)
    IN /\ resp' = Response("getAllQuestionsByExamId", r.status, r.msg,
                           [params |-> [examId |-> examId], user |-> u], r.out)
       /\ UNCHANGED <<users, exams, questions, results, now, ctr, plain, consumed, inflight>>

getQuestionById(questionId) ==
  IF questionId \notin DOMAIN questions
  THEN [status |-> 404, msg |-> "Question not found", out |-> NoOut]
  ELSE [status |-> 200, msg |-> " Question fetched successfully",
        out |-> [data |-> [q \in {questionId} |-> questions[q]]]]

GetQuestionById ==
  \E questionId \in QuestionIds, u \in DOMAIN users \cup {Anonymous} :
    LET r == getQuestionById(questionId)
        req == [params |-> [id |-> questionId], user |-> u]
    IN /\ IF u = Anonymous
          THEN resp' = Response("getQuestionById", 401,
                                "Authentication failed: Token is missing", req, NoOut)
          ELSE resp' = Response("getQuestionById", r.status, r.msg, req, r.out)
       /\ UNCHANGED <<users, exams, questions, results, now, ctr, plain, consumed, inflight>>

NextRead ==
  \/ CreateExamForGrade
  \/ CreateQuestionForTotals
  \/ GetAllQuestionsByExamId
  \/ GetQuestionById

SpecRead == InitGrade /\ [][NextRead]_vars

(* C30: a 200 response of getAllQuestionsByExamId or getQuestionById to a     *)
(* student or to an unauthenticated caller contains no question's             *)
(* correctAnswer.                                                             *)
C30_NoCorrectAnswerInQuestionReads ==
  (/\ resp.op \in {"getAllQuestionsByExamId", "getQuestionById"}
   /\ resp.status = 200
   /\ resp.req.user = Anonymous \/ users[resp.req.user].role = "student")
  => \A q \in DOMAIN resp.out.data : "correctAnswer" \notin DOMAIN resp.out.data[q]

=============================================================================
